---------------------------- MODULE Spec2Model ----------------------------
(***************************************************************************)
(* Communage: live speech-to-speech translation.                           *)
(*                                                                         *)
(* Part 1 models the voice-activity segmenter                              *)
(* (src/voice_activity_detector.py, VoiceActivityDetector.vad_generator).  *)
(* Part 2 models the processing pipeline (src/main.py, AbstractProcessor)  *)
(* with the recognition and translation clients (src/google_api.py).       *)
(*                                                                         *)
(* A chunk is identified by its position in the capture stream (1, 2, ..), *)
(* so that buffers hold chunk numbers and duplication is observable.  The  *)
(* voice classifier (webrtcvad) is an external collaborator: its verdict   *)
(* for each chunk is an input of the step that reads the chunk.            *)
(***************************************************************************)
EXTENDS Integers, Sequences, FiniteSets, TLC

VARIABLES
    cfg,                    \* constructor arguments chunk_duration_ms, padding_duration_ms
    leave,                  \* self.leave
    vad_pc,                 \* "running" inside the while loop, "closed" after it
    ring_buffer,            \* deque(maxlen=NUM_PADDING_CHUNKS) of chunks
    triggered,              \* local triggered
    voiced_frames,          \* local voiced_frames
    ring_buffer_flags,      \* [0] * NUM_WINDOW_CHUNKS
    ring_buffer_index,
    ring_buffer_flags_end,  \* [0] * NUM_WINDOW_CHUNKS_END
    ring_buffer_index_end,
    stream,                 \* history: classifier verdict of every chunk read so far
    events,                 \* history: on_start_detection / on_end_detection calls
    flushed,                \* history: padding buffer contents at each trigger
    yielded,                \* history: utterances yielded to the consumer
    feed,                   \* environment: shape of the stream fed so far
    patience,               \* SentenceTranslator.patience
    retries,                \* SpeechRecognizer.retries
    source,                 \* "microphone" (on_translated set) or "speaker"
    queue,                  \* AbstractProcessor.queue
    enqueued,               \* history: number of utterances handed to process()
    pipe_pc,                \* position of async_run
    item,                   \* audio_data being processed (0: none)
    rec,                    \* SpeechRecognizer.__call__ in progress
    transcription,          \* local transcription
    tr,                     \* SentenceTranslator.__call__ in progress
    published,              \* history: new_translation_signal emissions
    tts_queue,              \* TTSWorker.queue
    host,                   \* environment: the devices the audio host reports
    spk_pc,                 \* position in the construction of the speaker handler
    device_info,            \* VoiceActivityDetector.__init__ local device_info
    opened,                 \* history: device indexes passed to self.pa.open
    speaker_thread,         \* ApplicationGUI.speaker_thread
    nrm,                    \* the detector's rates and channels, a chunk and its normalization
    prc,                    \* MicrophoneProcessor: thread state, running, queue
    ttsw,                   \* TTSWorker: position of run, running, queue, tts_lang
    play_queue,             \* PlayerWorker.queue (TTSWorker.play_queue)
    plw,                    \* PlayerWorker: position of run, running, queue, speaker
    plays,                  \* history: calls of speaker.play
    speaker_log,            \* history: calls of set_speaker
    hnd,                    \* AbstractStreamHandler: position of run and attributes
    stp                     \* stop_processing activations, by calling thread

segVars == <<cfg, leave, vad_pc, ring_buffer, triggered, voiced_frames,
             ring_buffer_flags, ring_buffer_index, ring_buffer_flags_end,
             ring_buffer_index_end, stream, events, flushed, yielded, feed>>

pipeVars == <<patience, retries, source, queue, enqueued, pipe_pc, item, rec,
              transcription, tr, published, tts_queue>>

devVars == <<host, spk_pc, device_info, opened, speaker_thread, nrm>>

workVars == <<prc, ttsw, play_queue, plw, plays, speaker_log>>

stopVars == <<hnd, stp>>

lifeVars == <<devVars, workVars, stopVars>>

vars == <<segVars, pipeVars, lifeVars>>

-----------------------------------------------------------------------------
(* Bounds of the exploration *)

\* loopback devices the host enumerates
MaxLoopbacks == 2

\* default configuration, sparse family: unvoiced chunks inside the speech and
\* voiced chunks inside the silence that follows
MaxGaps == 2
MaxBlips == 1

\* calls of set_speaker
MaxSwitches == 1

\* the normalizer: channels of a device, frames of a chunk, small rates
MaxChannels == 2
MaxFrames == 4
MaxRate == 4

\* chunks of silence the device delivers after an utterance has ended
MaxSilence == 1

\* default configuration: streams of the shape silence, one voiced burst, silence
StreamLen == 85
MaxLead == 10
MaxBurst == 15
\* coarse configurations: every stream up to this length
MaxChunksCoarse == 13
MaxChunksMid == 15

-----------------------------------------------------------------------------
(* Configuration: VoiceActivityDetector.__init__ *)

DefaultChunkMs == 30
DefaultPaddingMs == 1500
WindowMs == 400
RATE == 16000

DefaultConfig == [chunk_duration_ms |-> DefaultChunkMs, padding_duration_ms |-> DefaultPaddingMs]
CoarseConfig == [chunk_duration_ms |-> 200, padding_duration_ms |-> 600]
MidConfig == [chunk_duration_ms |-> 66, padding_duration_ms |-> DefaultPaddingMs]

Configs == {DefaultConfig, CoarseConfig, MidConfig}

CHUNK_SIZE(c) == (RATE * c.chunk_duration_ms) \div 1000
NUM_PADDING_CHUNKS(c) == c.padding_duration_ms \div c.chunk_duration_ms
NUM_WINDOW_CHUNKS(c) == WindowMs \div c.chunk_duration_ms
NUM_WINDOW_CHUNKS_END(c) == NUM_WINDOW_CHUNKS(c) * 2

\* bytes of one normalized chunk (int16 mono at RATE)
FrameBytes(c) == 2 * CHUNK_SIZE(c)

-----------------------------------------------------------------------------
(* Helpers of vad_generator *)

RECURSIVE SumTo(_, _)
SumTo(f, k) == IF k < 0 THEN 0 ELSE f[k] + SumTo(f, k - 1)

\* sum(ring_buffer_flags)
Sum(f) == SumTo(f, Cardinality(DOMAIN f) - 1)

\* 1 if active else 0
Flag(active) == IF active THEN 1 ELSE 0

\* variant: the windows start filled with ones
OneFlags(n) == [i \in 0 .. (n - 1) |-> 1]

\* [0] * n
ZeroFlags(n) == [i \in 0 .. (n - 1) |-> 0]

\* variant: the verdict is not written to the window
WriteFlagSkipped(flags, index, active) == flags

\* flags[index] = 1 if active else 0
WriteFlag(flags, index, active) == [flags EXCEPT ![index] = Flag(active)]

\* index = (index + 1) % n
NextIndex(index, n) == (index + 1) % n

\* collections.deque(maxlen).append
DequeAppend(d, x, maxlen) ==
    IF maxlen = 0 THEN <<>>
    ELSE IF Len(d) >= maxlen THEN Append(Tail(d), x)
    ELSE Append(d, x)

\* variant: the start threshold is one half of the window
StartConfirmedHalf(flags, n) == 10 * Sum(flags) > 5 * n

\* num_voiced > 0.8 * self.NUM_WINDOW_CHUNKS  (0.8 * n is not an integer for
\* the window sizes explored, so the comparison is exact in tenths)
StartConfirmed(flags, n) == 10 * Sum(flags) > 8 * n

\* variant: the end is confirmed by a window that is more than half unvoiced
EndConfirmedLoose(flags, n) == 10 * (n - Sum(flags)) > 5 * n

\* variant: the end test counts voiced verdicts instead of unvoiced ones
EndConfirmedVoiced(flags, n) == 10 * Sum(flags) > 9 * n

\* num_unvoiced > 0.90 * self.NUM_WINDOW_CHUNKS_END
EndConfirmed(flags, n) == 10 * (n - Sum(flags)) > 9 * n

\* variant: the padding buffer is not flushed into the utterance
FlushNothing(frames, rb) == frames

\* voiced_frames.extend(ring_buffer)
Flush(frames, rb) == frames \o rb

\* ring_buffer.clear() at the trigger
PaddingAfterTrigger(rb) == <<>>

\* the else branch's ring_buffer.append(chunk)
PaddingWhileRecording(rb, chunk, maxlen) == DequeAppend(rb, chunk, maxlen)

\* on_start_detection()
OnStartDetection(ev, chunk) == Append(ev, [kind |-> "start", at |-> chunk])

\* variant: the end of an utterance is not announced
OnEndSilent(ev, chunk) == ev

\* on_end_detection()
OnEndDetection(ev, chunk) == Append(ev, [kind |-> "end", at |-> chunk])

\* b"".join(voiced_frames): its length in bytes
RECURSIVE JoinLen(_, _)
JoinLen(frames, c) ==
    IF frames = <<>> THEN 0 ELSE FrameBytes(c) + JoinLen(Tail(frames), c)

-----------------------------------------------------------------------------
(* Environment: which verdict the classifier may give for the next chunk *)

FeedInit == [phase |-> "lead", burst |-> 0]

\* another family for the default configuration: speech with at most MaxGaps
\* unvoiced chunks before the start is confirmed, then silence with at most
\* MaxBlips voiced chunks, up to the end of the first utterance
SparseInit == [phase |-> "sparse", gaps |-> 0, blips |-> 0]

SparseAllows(active) ==
    /\ Len(stream) < StreamLen
    /\ yielded = <<>>
    /\ IF events = <<>>
       THEN active \/ feed.gaps < MaxGaps
       ELSE ~active \/ feed.blips < MaxBlips

SparseNext(active) ==
    IF events = <<>>
    THEN [feed EXCEPT !.gaps = IF active THEN @ ELSE @ + 1]
    ELSE [feed EXCEPT !.blips = IF active THEN @ + 1 ELSE @]

\* the handler's device speaking in phrases: the verdicts are those of
\* SpeechPattern, and the device decides how many chunks there are
PhrasesInit == [phase |-> "phrases", burst |-> 0]

FeedAllows(active) ==
    IF feed.phase = "sparse" THEN SparseAllows(active)
    ELSE IF feed.phase = "phrases" THEN TRUE
    ELSE IF cfg = DefaultConfig
    THEN /\ Len(stream) < StreamLen
         /\ active => \/ feed.phase = "lead" /\ Len(stream) <= MaxLead /\ MaxBurst > 0
                      \/ feed.phase = "burst" /\ feed.burst < MaxBurst
    ELSE IF cfg = CoarseConfig THEN Len(stream) < MaxChunksCoarse
    ELSE Len(stream) < MaxChunksMid

FeedNext(active) ==
    IF feed.phase = "sparse" THEN SparseNext(active)
    ELSE IF feed.phase = "phrases" THEN feed
    ELSE IF cfg # DefaultConfig THEN feed
    ELSE IF active THEN [phase |-> "burst", burst |-> feed.burst + 1]
    ELSE IF feed.phase = "lead" THEN feed
    ELSE [phase |-> "tail", burst |-> feed.burst]

-----------------------------------------------------------------------------
(* State after construction and after the generator has started the stream *)

InitSegmenter ==
    /\ cfg \in Configs
    /\ leave = FALSE
    /\ vad_pc = "running"
    /\ ring_buffer = <<>>
    /\ triggered = FALSE
    /\ voiced_frames = <<>>
    /\ ring_buffer_flags = ZeroFlags(NUM_WINDOW_CHUNKS(cfg))
    /\ ring_buffer_index = 0
    /\ ring_buffer_flags_end = ZeroFlags(NUM_WINDOW_CHUNKS_END(cfg))
    /\ ring_buffer_index_end = 0
    /\ stream = <<>>
    /\ events = <<>>
    /\ flushed = <<>>
    /\ yielded = <<>>
    /\ feed = FeedInit

\* the default configuration fed with the streams of the sparse family
SegmenterSparse ==
    /\ cfg = DefaultConfig
    /\ leave = FALSE
    /\ vad_pc = "running"
    /\ ring_buffer = <<>>
    /\ triggered = FALSE
    /\ voiced_frames = <<>>
    /\ ring_buffer_flags = ZeroFlags(NUM_WINDOW_CHUNKS(cfg))
    /\ ring_buffer_index = 0
    /\ ring_buffer_flags_end = ZeroFlags(NUM_WINDOW_CHUNKS_END(cfg))
    /\ ring_buffer_index_end = 0
    /\ stream = <<>>
    /\ events = <<>>
    /\ flushed = <<>>
    /\ yielded = <<>>
    /\ feed = SparseInit

(* One iteration of the while loop: read a chunk, classify it, update both  *)
(* flag windows, then the Idle or the Recording branch.                     *)
ReadChunk(active) ==
    /\ vad_pc = "running"
    /\ ~leave
    /\ FeedAllows(active)
    /\ LET chunk == Len(stream) + 1
           N == NUM_WINDOW_CHUNKS(cfg)
           NE == NUM_WINDOW_CHUNKS_END(cfg)
           P == NUM_PADDING_CHUNKS(cfg)
           flags == WriteFlag(ring_buffer_flags, ring_buffer_index, active)
           flagsEnd == WriteFlag(ring_buffer_flags_end, ring_buffer_index_end, active)
       IN  /\ stream' = Append(stream, active)
           /\ feed' = FeedNext(active)
           /\ ring_buffer_flags' = flags
           /\ ring_buffer_index' = NextIndex(ring_buffer_index, N)
           /\ ring_buffer_flags_end' = flagsEnd
           /\ ring_buffer_index_end' = NextIndex(ring_buffer_index_end, NE)
           /\ IF ~triggered
              THEN LET rb == DequeAppend(ring_buffer, chunk, P)
                   IN  IF StartConfirmed(flags, N)
                       THEN /\ triggered' = TRUE
                            /\ voiced_frames' = Flush(voiced_frames, rb)
                            /\ events' = OnStartDetection(events, chunk)
                            /\ flushed' = Append(flushed, rb)
                            /\ ring_buffer' = PaddingAfterTrigger(rb)
                            /\ UNCHANGED yielded
                       ELSE /\ ring_buffer' = rb
                            /\ UNCHANGED <<triggered, voiced_frames, events, flushed, yielded>>
              ELSE LET vf == Append(voiced_frames, chunk)
                       rb == PaddingWhileRecording(ring_buffer, chunk, P)
                   IN  /\ ring_buffer' = rb
                       /\ UNCHANGED flushed
                       /\ IF EndConfirmed(flagsEnd, NE)
                          THEN /\ triggered' = FALSE
                               /\ events' = OnEndDetection(events, chunk)
                               /\ yielded' = Append(yielded, vf)
                               /\ voiced_frames' = <<>>
                          ELSE /\ voiced_frames' = vf
                               /\ UNCHANGED <<triggered, events, yielded>>
    /\ UNCHANGED <<cfg, leave, vad_pc>>
    /\ UNCHANGED pipeVars

Read == (\E active \in BOOLEAN : ReadChunk(active)) /\ UNCHANGED lifeVars

(* VoiceActivityDetector.close *)
Close ==
    /\ ~leave
    /\ leave' = TRUE
    /\ UNCHANGED <<cfg, vad_pc, ring_buffer, triggered, voiced_frames,
                   ring_buffer_flags, ring_buffer_index, ring_buffer_flags_end,
                   ring_buffer_index_end, stream, events, flushed, yielded, feed>>
    /\ UNCHANGED pipeVars
    /\ UNCHANGED lifeVars

\* variant: on leaving the loop the generator ends the utterance in hand
GeneratorExitFlushes ==
    /\ vad_pc = "running"
    /\ leave
    /\ vad_pc' = "closed"
    /\ IF triggered
       THEN /\ triggered' = FALSE
            /\ events' = OnEndDetection(events, Len(stream))
            /\ yielded' = Append(yielded, voiced_frames)
            /\ voiced_frames' = <<>>
       ELSE UNCHANGED <<triggered, events, yielded, voiced_frames>>
    /\ UNCHANGED <<cfg, leave, ring_buffer, ring_buffer_flags, ring_buffer_index,
                   ring_buffer_flags_end, ring_buffer_index_end, stream, flushed, feed>>
    /\ UNCHANGED pipeVars

(* The loop condition sees leave: stop_stream, close, terminate *)
GeneratorExit ==
    /\ vad_pc = "running"
    /\ leave
    /\ vad_pc' = "closed"
    /\ UNCHANGED <<cfg, leave, ring_buffer, triggered, voiced_frames,
                   ring_buffer_flags, ring_buffer_index, ring_buffer_flags_end,
                   ring_buffer_index_end, stream, events, flushed, yielded, feed>>
    /\ UNCHANGED pipeVars

LoopExit == GeneratorExit /\ UNCHANGED lifeVars

-----------------------------------------------------------------------------
(* Part 2: the processing pipeline                                          *)

(* Bounds of the exploration *)
MaxUtterances == 2
MaxScript == 3
MaxPatience == 2

(* Program constants *)
DefaultRetries == 3
DefaultPatience == -1

-----------------------------------------------------------------------------
(* Text: a Python str is a sequence of characters, an optional str a record *)

NL == "\n"
Whitespace == {" ", NL}

None == [isNone |-> TRUE, text |-> <<>>]
Some(t) == [isNone |-> FALSE, text |-> t]

\* truth value of an optional str
Truthy(o) == ~o.isNone /\ o.text # <<>>

RECURSIVE LStrip(_)
LStrip(t) == IF t # <<>> /\ Head(t) \in Whitespace THEN LStrip(Tail(t)) ELSE t

RECURSIVE RStrip(_)
RStrip(t) ==
    IF t # <<>> /\ t[Len(t)] \in Whitespace THEN RStrip(SubSeq(t, 1, Len(t) - 1)) ELSE t

\* str.strip()
Strip(t) == RStrip(LStrip(t))

\* variant: the test without the strip, `if x`
NonBlankUnstripped(o) == ~o.isNone /\ o.text # <<>>

\* x and x.strip() != ""
NonBlank(o) == Truthy(o) /\ Strip(o.text) # <<>>

\* str.upper() on one character
Upper(c) == IF c = "a" THEN "A" ELSE c

\* line[:1].upper() + line[1:]
Capitalize(t) == IF t = <<>> THEN <<>> ELSE <<Upper(Head(t))>> \o Tail(t)

\* translated_sentence[-1] == "\n" (on a non-empty str)
EndsWithNewline(t) == t[Len(t)] = NL

-----------------------------------------------------------------------------
(* SpeechRecognizer.__call__ *)

\* what one POST can bring: a transport error, a response with no transcript
\* line, a response that does not decode, a response with a transcript
Transcripts == {<<"a">>, <<" ">>, <<>>}

RecReplies ==
    {[kind |-> k, text |-> <<>>] : k \in {"error", "empty", "garbled"}}
        \cup {[kind |-> "transcript", text |-> t] : t \in Transcripts}

RecIdle == [pc |-> "idle", i |-> 0, replies |-> <<>>, result |-> None]

RecognizerStart == [pc |-> "loop", i |-> 0, replies |-> <<>>, result |-> None]

\* variant: a transport error ends the call (break instead of continue)
RecognizerAttemptBreak(r, reply) ==
    LET r1 == [r EXCEPT !.replies = Append(@, reply)]
    IN  CASE reply.kind = "transcript" ->
                 [r1 EXCEPT !.pc = "returned", !.result = Some(Capitalize(reply.text))]
          [] reply.kind = "empty" -> [r1 EXCEPT !.i = @ + 1]
          [] OTHER -> [r1 EXCEPT !.pc = "returned", !.result = None]

\* one iteration of for i in range(self.retries)
RecognizerAttempt(r, reply) ==
    LET r1 == [r EXCEPT !.replies = Append(@, reply)]
    IN  CASE reply.kind = "error" -> [r1 EXCEPT !.i = @ + 1]
          [] reply.kind = "empty" -> [r1 EXCEPT !.i = @ + 1]
          [] reply.kind = "garbled" -> [r1 EXCEPT !.pc = "returned", !.result = None]
          [] reply.kind = "transcript" ->
                 [r1 EXCEPT !.pc = "returned", !.result = Some(Capitalize(reply.text))]

\* variant: the exhausted loop raises instead of returning None
RecognizerGiveUpRaises(r) == [r EXCEPT !.pc = "raised"]

\* the for loop ends without a return
RecognizerGiveUp(r) == [r EXCEPT !.pc = "returned", !.result = None]

-----------------------------------------------------------------------------
(* SentenceTranslator.__call__ *)

\* what one GoogleTranslate call can return: None (status not 200, or an
\* exception), or the concatenated translation
Ok == <<"a">>
Sentinel == <<"a", NL>>
TrReplies == {None, Some(<<>>), Some(Ok), Some(Sentinel), Some(<<NL>>)}

\* the service's answers to the successive calls for one sentence; the last
\* answer repeats
Scripts == UNION {[1 .. n -> TrReplies] : n \in 1 .. MaxScript}

\* the k-th call's return value
GoogleTranslate(script, k) == script[IF k <= Len(script) THEN k ELSE Len(script)]

TrIdle ==
    [pc |-> "idle", script |-> <<>>, calls |-> 0, loops |-> 0, text |-> <<>>,
     fail |-> FALSE, patience |-> 0, result |-> None, raised |-> FALSE]

\* an exception reaches except Exception: print, return None
TranslatorRaise(t) == [t EXCEPT !.pc = "returned", !.result = None, !.raised = TRUE]

\* while fail_to_translate and patience: ... ; return translated_sentence
TranslatorWhile(t) ==
    IF t.fail /\ t.patience # 0
    THEN [t EXCEPT !.pc = "while"]
    ELSE [t EXCEPT !.pc = "returned", !.result = Some(t.text)]

\* from the entry to the first evaluation of the while condition
TranslatorFirst(sentence, script, p) ==
    LET t0 == [TrIdle EXCEPT !.script = script, !.patience = p]
    IN  IF sentence = <<>>
        THEN [t0 EXCEPT !.pc = "returned", !.result = None]
        ELSE LET reply == GoogleTranslate(script, 1)
                 t1 == [t0 EXCEPT !.calls = 1]
             IN  IF reply.isNone \/ reply.text = <<>>
                 THEN TranslatorRaise(t1)
                 ELSE TranslatorWhile([t1 EXCEPT !.text = reply.text,
                                                 !.fail = EndsWithNewline(reply.text)])

\* variant: the retry awaits the call and never spends the budget
TranslatorRetryUnbudgeted(t) ==
    LET reply == GoogleTranslate(t.script, t.calls + 1)
        t1 == [t EXCEPT !.calls = @ + 1, !.loops = @ + 1]
    IN  IF reply.isNone \/ reply.text = <<>>
        THEN TranslatorRaise(t1)
        ELSE TranslatorWhile([t1 EXCEPT !.text = reply.text,
                                        !.fail = EndsWithNewline(reply.text)])

\* one iteration of the while loop: await self.GoogleTranslate(...).text takes
\* .text of the coroutine object before awaiting it, which raises
\* AttributeError; the coroutine never runs, so no call is made
TranslatorRetry(t) == TranslatorRaise([t EXCEPT !.loops = @ + 1])

-----------------------------------------------------------------------------
(* AbstractProcessor *)

Patiences == DefaultPatience .. MaxPatience

InitProcessor ==
    /\ patience \in Patiences
    /\ retries \in 0 .. DefaultRetries
    /\ source \in {"microphone", "speaker"}
    /\ queue = <<>>
    /\ enqueued = 0
    /\ pipe_pc = "poll"
    /\ item = 0
    /\ rec = RecIdle
    /\ transcription = None
    /\ tr = TrIdle
    /\ published = <<>>
    /\ tts_queue = <<>>

\* the application's processor: SpeechRecognizer(language), SentenceTranslator(src, dst)
PipelineAtRest ==
    /\ patience = DefaultPatience
    /\ retries = DefaultRetries
    /\ source = "microphone"
    /\ queue = <<>>
    /\ enqueued = 0
    /\ pipe_pc = "poll"
    /\ item = 0
    /\ rec = RecIdle
    /\ transcription = None
    /\ tr = TrIdle
    /\ published = <<>>
    /\ tts_queue = <<>>

SegmenterAtRest == cfg = DefaultConfig /\ InitSegmenter

(* process: the handler hands over an utterance *)
Process ==
    /\ enqueued < MaxUtterances
    /\ enqueued' = enqueued + 1
    /\ queue' = Append(queue, enqueued + 1)
    /\ UNCHANGED <<patience, retries, source, pipe_pc, item, rec, transcription,
                   tr, published, tts_queue>>
    /\ UNCHANGED segVars
    /\ UNCHANGED lifeVars

(* async_run: the queue is not empty; get_nowait, pre_process_audio, and the  *)
(* recognizer is entered                                                      *)
Dequeue ==
    /\ pipe_pc = "poll"
    /\ queue # <<>>
    /\ item' = Head(queue)
    /\ queue' = Tail(queue)
    /\ rec' = RecognizerStart
    /\ pipe_pc' = "recognize"
    /\ UNCHANGED <<patience, retries, source, enqueued, transcription, tr,
                   published, tts_queue>>
    /\ UNCHANGED segVars
    /\ UNCHANGED lifeVars

(* one recognition attempt: the POST and the scan of its response *)
RecognizeFrom(replies) ==
    /\ pipe_pc = "recognize"
    /\ rec.pc = "loop"
    /\ rec.i < retries
    /\ \E reply \in replies : rec' = RecognizerAttempt(rec, reply)
    /\ UNCHANGED <<patience, retries, source, queue, enqueued, pipe_pc, item,
                   transcription, tr, published, tts_queue>>
    /\ UNCHANGED segVars
    /\ UNCHANGED lifeVars

Recognize == RecognizeFrom(RecReplies)

(* range(self.retries) is used up *)
RecognizeExhausted ==
    /\ pipe_pc = "recognize"
    /\ rec.pc = "loop"
    /\ rec.i >= retries
    /\ rec' = RecognizerGiveUp(rec)
    /\ UNCHANGED <<patience, retries, source, queue, enqueued, pipe_pc, item,
                   transcription, tr, published, tts_queue>>
    /\ UNCHANGED segVars
    /\ UNCHANGED lifeVars

(* transcription = await self.transcriber(...); if transcription and ... *)
AfterRecognize ==
    /\ pipe_pc = "recognize"
    /\ rec.pc = "returned"
    /\ transcription' = rec.result
    /\ pipe_pc' = IF NonBlank(rec.result) THEN "translate" ELSE "sleep"
    /\ UNCHANGED <<patience, retries, source, queue, enqueued, item, rec, tr,
                   published, tts_queue>>
    /\ UNCHANGED segVars
    /\ UNCHANGED lifeVars

(* the translator is entered: first call and first test of the while condition *)
TranslateFirstFrom(scripts) ==
    /\ pipe_pc = "translate"
    /\ tr.pc = "idle"
    /\ \E script \in scripts : tr' = TranslatorFirst(transcription.text, script, patience)
    /\ UNCHANGED <<patience, retries, source, queue, enqueued, pipe_pc, item, rec,
                   transcription, published, tts_queue>>
    /\ UNCHANGED segVars
    /\ UNCHANGED lifeVars

TranslateFirst == TranslateFirstFrom(Scripts)

(* one iteration of the translator's while loop *)
TranslateRetry ==
    /\ pipe_pc = "translate"
    /\ tr.pc = "while"
    /\ tr' = TranslatorRetry(tr)
    /\ UNCHANGED <<patience, retries, source, queue, enqueued, pipe_pc, item, rec,
                   transcription, published, tts_queue>>
    /\ UNCHANGED segVars
    /\ UNCHANGED lifeVars

\* variant: the speaker pipeline is given the synthesis callback too
PublishEnqueuesAlways ==
    /\ pipe_pc = "translate"
    /\ tr.pc = "returned"
    /\ IF NonBlank(tr.result)
       THEN /\ published' = Append(published, [item |-> item, text |-> tr.result.text])
            /\ tts_queue' = Append(tts_queue, [item |-> item, text |-> tr.result.text])
       ELSE UNCHANGED <<published, tts_queue>>
    /\ pipe_pc' = "sleep"
    /\ UNCHANGED <<patience, retries, source, queue, enqueued, item, rec,
                   transcription, tr>>
    /\ UNCHANGED segVars
    /\ UNCHANGED lifeVars

(* process_result_of_queue_processing(translation, self.on_translated) *)
Publish ==
    /\ pipe_pc = "translate"
    /\ tr.pc = "returned"
    /\ IF NonBlank(tr.result)
       THEN /\ published' = Append(published, [item |-> item, text |-> tr.result.text])
            /\ tts_queue' = IF source = "microphone"
                            THEN Append(tts_queue, [item |-> item, text |-> tr.result.text])
                            ELSE tts_queue
       ELSE UNCHANGED <<published, tts_queue>>
    /\ pipe_pc' = "sleep"
    /\ UNCHANGED <<patience, retries, source, queue, enqueued, item, rec,
                   transcription, tr>>
    /\ UNCHANGED segVars
    /\ UNCHANGED lifeVars

(* await asyncio.sleep(0.1) at the end of the iteration; the locals are dead *)
Sleep ==
    /\ pipe_pc = "sleep"
    /\ pipe_pc' = "poll"
    /\ item' = 0
    /\ rec' = RecIdle
    /\ transcription' = None
    /\ tr' = TrIdle
    /\ UNCHANGED <<patience, retries, source, queue, enqueued, published, tts_queue>>
    /\ UNCHANGED segVars
    /\ UNCHANGED lifeVars

\* the services as the loops of Parts 4 and 5 meet them: a transport error or
\* a transcript; a translation, no translation, a sentinel-terminated one
LiveReplies == {[kind |-> "error", text |-> <<>>], [kind |-> "transcript", text |-> <<"a">>]}

LiveScripts == {<<Some(Ok)>>, <<None>>, <<Some(Sentinel)>>}

RecognizeLive == RecognizeFrom(LiveReplies)

TranslateFirstLive == TranslateFirstFrom(LiveScripts)

-----------------------------------------------------------------------------
(* Part 6: the frame normalizer (resample_and_convert_chunk) and the read   *)
(* that feeds it                                                            *)

\* native rates of real devices
NativeRates == {8000, 44100, 48000}

\* working rate and native rate of a detector: small rates in every
\* combination, and the default working rate on the real devices
RatePairs ==
    ((1 .. MaxRate) \X (1 .. MaxRate)) \cup ({RATE} \X (NativeRates \cup {RATE}))

\* sample values
Samples == {-3, 0, 4}

\* self.CHUNK_SIZE for a constructor argument rate
ChunkSizeAt(rate, c) == (rate * c.chunk_duration_ms) \div 1000

\* np.frombuffer(chunk, dtype=np.int16): a chunk is the sequence of its int16
\* samples, interleaved by channel (two bytes each); every frame of this
\* chunk carries the sample tile[c] on channel c
Chunk(frames, channels, tile) ==
    [i \in 1 .. (frames * channels) |-> tile[((i - 1) % channels) + 1]]

\* astype(np.int16) of a float: the fraction is dropped, towards zero
TruncDiv(a, n) == IF a >= 0 THEN a \div n ELSE 0 - ((0 - a) \div n)

\* sum of the channels 1 .. c of frame f of audio_data.reshape(-1, channels)
RECURSIVE FrameSum(_, _, _, _)
FrameSum(audio, f, channels, c) ==
    IF c = 0 THEN 0
    ELSE audio[(f - 1) * channels + c] + FrameSum(audio, f, channels, c - 1)

\* audio_data.reshape(-1, channels).mean(axis=1).astype(np.int16)
ChannelMean(audio, channels) ==
    [f \in 1 .. (Len(audio) \div channels) |->
        TruncDiv(FrameSum(audio, f, channels, channels), channels)]

\* variant: the sample count is left as it is
ResampledLengthSame(L, rin, rout) == L

\* int(len(audio_data) * self.RATE / self.input_rate)
ResampledLength(L, rin, rout) == (L * rout) \div rin

\* scipy.signal.resample(x, num): num samples over the same time span. The
\* band-limited interpolation is not computed: output sample i carries the
\* input sample of the instant it falls on.
Resample(x, num) == [i \in 1 .. num |-> x[(((i - 1) * Len(x)) \div num) + 1]]

\* resample_and_convert_chunk
ResampleAndConvertChunk(chunk, channels, rin, rout) ==
    LET mono == IF channels > 1 THEN ChannelMean(chunk, channels) ELSE chunk
    IN  IF rin # rout
        THEN Resample(mono, ResampledLength(Len(mono), rin, rout))
        ELSE chunk

\* the detector before a chunk is read: RATE, input_rate, input_channels
NormalizerIdle ==
    [pc |-> "idle", rate |-> RATE, input_rate |-> RATE, input_channels |-> 1,
     read |-> FALSE, chunk |-> <<>>, out |-> <<>>]

NormalizerInputs ==
    {[NormalizerIdle EXCEPT !.rate = p[1], !.input_rate = p[2], !.input_channels = ch] :
        p \in RatePairs, ch \in 1 .. MaxChannels}

\* chunk = self.stream.read(self.CHUNK_SIZE): CHUNK_SIZE frames of the device,
\* each of input_channels samples
StreamRead ==
    /\ nrm.pc = "idle"
    /\ \E tile \in [1 .. nrm.input_channels -> Samples] :
           nrm' = [nrm EXCEPT !.pc = "chunk", !.read = TRUE,
                              !.chunk = Chunk(ChunkSizeAt(nrm.rate, cfg),
                                              nrm.input_channels, tile)]
    /\ UNCHANGED <<host, spk_pc, device_info, opened, speaker_thread>>
    /\ UNCHANGED <<segVars, pipeVars, workVars, stopVars>>

\* the function is given a chunk of any number of frames
AnyChunk ==
    /\ nrm.pc = "idle"
    /\ \E frames \in 1 .. MaxFrames, tile \in [1 .. nrm.input_channels -> Samples] :
           nrm' = [nrm EXCEPT !.pc = "chunk",
                              !.chunk = Chunk(frames, nrm.input_channels, tile)]
    /\ UNCHANGED <<host, spk_pc, device_info, opened, speaker_thread>>
    /\ UNCHANGED <<segVars, pipeVars, workVars, stopVars>>

\* chunk = self.resample_and_convert_chunk(chunk); a resampling to no sample
\* at all is left to scipy, which may raise
Normalize ==
    /\ nrm.pc = "chunk"
    /\ LET out == ResampleAndConvertChunk(nrm.chunk, nrm.input_channels,
                                          nrm.input_rate, nrm.rate)
       IN  \/ nrm' = [nrm EXCEPT !.pc = "normalized", !.out = out]
           \/ /\ nrm.input_rate # nrm.rate
              /\ out = <<>>
              /\ nrm' = [nrm EXCEPT !.pc = "raised"]
    /\ UNCHANGED <<host, spk_pc, device_info, opened, speaker_thread>>
    /\ UNCHANGED <<segVars, pipeVars, workVars, stopVars>>

-----------------------------------------------------------------------------
(* Part 3: construction of the speaker handler                              *)
(* (LoopbackDeviceStrategy.select_device, VoiceActivityDetector.__init__,   *)
(* SpeakerStreamHandler.__init__, ApplicationGUI.toggle_translation)        *)

\* device names are strings; "Speakers" and "Speakers [Loopback]" are <<"s">>
\* and <<"s", "l">>
DeviceNames == {<<"s">>, <<"s", "l">>, <<"h">>, <<"h", "l">>}

\* a in b, for strings
Contains(a, b) ==
    \E i \in 1 .. (Len(b) - Len(a) + 1) : SubSeq(b, i, i + Len(a) - 1) = a

\* what the audio host reports: the default output device of the WASAPI host
\* API and the devices get_loopback_device_info_generator() enumerates
Device(i, n, l) == [index |-> i, name |-> n, isLoopbackDevice |-> l]

Hosts ==
    {[default |-> Device(1, n, l), loopbacks |-> ls] :
        n \in DeviceNames, l \in BOOLEAN,
        ls \in UNION {[1 .. k -> DeviceNames] : k \in 0 .. MaxLoopbacks}}

LoopbackAt(h, j) == Device(1 + j, h.loopbacks[j], TRUE)

\* the for loop with break; 0 when the loop runs to its else clause
RECURSIVE FirstMatch(_, _)
FirstMatch(h, j) ==
    IF j > Len(h.loopbacks) THEN 0
    ELSE IF Contains(h.default.name, LoopbackAt(h, j).name) THEN j
    ELSE FirstMatch(h, j + 1)

NoDevice == [index |-> 0]

Selected(d) == [raised |-> FALSE, device_info |-> [index |-> d.index]]

\* variant: without a match the first enumerated loopback device is taken
SelectDeviceFallback(h) ==
    IF h.default.isLoopbackDevice
    THEN Selected(h.default)
    ELSE IF FirstMatch(h, 1) # 0 THEN Selected(LoopbackAt(h, FirstMatch(h, 1)))
    ELSE IF Len(h.loopbacks) > 0 THEN Selected(LoopbackAt(h, 1))
    ELSE [raised |-> TRUE, device_info |-> NoDevice]

\* LoopbackDeviceStrategy.select_device
SelectDevice(h) ==
    IF h.default.isLoopbackDevice
    THEN Selected(h.default)
    ELSE IF FirstMatch(h, 1) # 0 THEN Selected(LoopbackAt(h, FirstMatch(h, 1)))
    ELSE [raised |-> TRUE, device_info |-> NoDevice]

NoThread == [constructed |-> FALSE, initialized |-> FALSE]

InitDevice ==
    /\ host \in Hosts
    /\ spk_pc = "new"
    /\ device_info = NoDevice
    /\ opened = {}
    /\ speaker_thread = NoThread
    /\ nrm = NormalizerIdle

\* no speaker handler is being constructed
DeviceAtRest ==
    /\ host = [default |-> Device(1, <<"s">>, TRUE), loopbacks |-> <<>>]
    /\ spk_pc = "new"
    /\ device_info = NoDevice
    /\ opened = {}
    /\ speaker_thread = NoThread
    /\ nrm = NormalizerIdle

\* VoiceActivityDetector.__init__ up to device_strategy.select_device(self.pa)
Select ==
    /\ spk_pc = "new"
    /\ LET r == SelectDevice(host)
       IN  /\ spk_pc' = IF r.raised THEN "raised" ELSE "selected"
           /\ device_info' = r.device_info
    /\ UNCHANGED <<host, opened, speaker_thread, nrm>>
    /\ UNCHANGED <<segVars, pipeVars, workVars, stopVars>>

\* the rest of VoiceActivityDetector.__init__: self.pa.open(..., start=False)
OpenStream ==
    /\ spk_pc = "selected"
    /\ opened' = opened \cup {device_info.index}
    /\ spk_pc' = "opened"
    /\ UNCHANGED <<host, device_info, speaker_thread, nrm>>
    /\ UNCHANGED <<segVars, pipeVars, workVars, stopVars>>

\* the rest of SpeakerStreamHandler.__init__ and AbstractStreamHandler.__init__
ConstructHandler ==
    /\ spk_pc = "opened"
    /\ speaker_thread' = [constructed |-> TRUE, initialized |-> FALSE]
    /\ spk_pc' = "constructed"
    /\ UNCHANGED <<host, device_info, opened, nrm>>
    /\ UNCHANGED <<segVars, pipeVars, workVars, stopVars>>

\* toggle_translation: self.speaker_thread.start(); run sets initialized
StartHandler ==
    /\ spk_pc = "constructed"
    /\ speaker_thread' = [speaker_thread EXCEPT !.initialized = TRUE]
    /\ spk_pc' = "started"
    /\ UNCHANGED <<host, device_info, opened, nrm>>
    /\ UNCHANGED <<segVars, pipeVars, workVars, stopVars>>

\* the RuntimeError leaves VoiceActivityDetector.__init__,
\* SpeakerStreamHandler.__init__ and toggle_translation
Propagate ==
    /\ spk_pc = "raised"
    /\ spk_pc' = "failed"
    /\ UNCHANGED <<host, device_info, opened, speaker_thread, nrm>>
    /\ UNCHANGED <<segVars, pipeVars, workVars, stopVars>>

-----------------------------------------------------------------------------
(* Part 4: the loops of the microphone processor                            *)
(* (AbstractProcessor.async_run, MicrophoneProcessor.run, TTSWorker.run,    *)
(* PlayerWorker.run; EdgeTTSEngine.text_to_speech)                          *)

\* A queue.Queue is the log of everything put on it and the number of items
\* taken from it; get_nowait takes the oldest item not yet taken.
QueueEmpty(log, taken) == taken = Len(log)

\* variant: the newest item is taken
GetNewest(log, taken) == log[Len(log)]

GetNowait(log, taken) == log[taken + 1]

\* languages a TTSWorker can be given: one with a voice in the mapping, one
\* without (the default voice is used), and none
Langs == {"en", "zz", ""}

\* what is put on the play queue (None when text_to_speech returns nothing)
Audio(i) == [item |-> i, isNone |-> FALSE]
NoAudio(i) == [item |-> i, isNone |-> TRUE]

\* EdgeTTSEngine.text_to_speech(text, lang); net: the outcome of the request
TextToSpeech(t, lang, net) ==
    IF lang = "" THEN [raised |-> FALSE, value |-> NoAudio(t.item)]
    ELSE IF net = "fail" THEN [raised |-> TRUE, value |-> NoAudio(t.item)]
    ELSE [raised |-> FALSE, value |-> Audio(t.item)]

\* variant: a missing result is not put on the play queue
PutResultIfPresent(q, r) == IF r.raised \/ r.value.isNone THEN q ELSE Append(q, r.value)

\* self.play_queue.put_nowait(self.tts_engine.text_to_speech(text, self.tts_lang))
PutResult(q, r) == IF r.raised THEN q ELSE Append(q, r.value)

DefaultSpeaker == "default"
Speakers == {DefaultSpeaker, "usb"}

\* variant: the device the worker was constructed with
PlayDeviceAtStart(p) == DefaultSpeaker

\* self.speaker.play(...): the attribute is read once, at the call
PlayDevice(p) == p.speaker

\* thread: "new" as constructed, "started" once start() was called, "running"
\* once run executes
ProcessorNew == [thread |-> "new", running |-> TRUE, queue_set |-> TRUE]

TTSWorkerNew(lang) ==
    [pc |-> "new", running |-> TRUE, queue_set |-> TRUE, taken |-> 0, tts_lang |-> lang]

PlayerWorkerNew ==
    [pc |-> "new", running |-> TRUE, queue_set |-> TRUE, taken |-> 0,
     speaker |-> DefaultSpeaker, playing_on |-> DefaultSpeaker]

\* MicrophoneProcessor.__init__, and start() called by the handler
InitWorkers ==
    /\ prc = [ProcessorNew EXCEPT !.thread = "started"]
    /\ ttsw \in {TTSWorkerNew(l) : l \in Langs}
    /\ plw = PlayerWorkerNew
    /\ play_queue = <<>>
    /\ plays = <<>>
    /\ speaker_log = <<>>

\* no microphone processor is looked at
WorkersAtRest ==
    /\ prc = ProcessorNew
    /\ ttsw = TTSWorkerNew("en")
    /\ plw = PlayerWorkerNew
    /\ play_queue = <<>>
    /\ plays = <<>>
    /\ speaker_log = <<>>

\* MicrophoneProcessor.run up to the call of async_run
ProcessorRun ==
    /\ prc.thread = "started"
    /\ prc' = [prc EXCEPT !.thread = "running"]
    /\ ttsw' = [ttsw EXCEPT !.pc = "while"]
    /\ plw' = [plw EXCEPT !.pc = "while"]
    /\ UNCHANGED <<play_queue, plays, speaker_log>>
    /\ UNCHANGED <<segVars, pipeVars, devVars, stopVars>>

\* while self.running:
PipeWhile ==
    /\ prc.thread = "running"
    /\ pipe_pc = "poll"
    /\ pipe_pc' = IF prc.running THEN "empty" ELSE "exited"
    /\ UNCHANGED <<patience, retries, source, queue, enqueued, item, rec,
                   transcription, tr, published, tts_queue>>
    /\ UNCHANGED <<segVars, lifeVars>>

\* if not self.queue.empty(): outside the try, so with self.queue = None the
\* AttributeError leaves async_run
PipeEmpty ==
    /\ pipe_pc = "empty"
    /\ pipe_pc' = IF ~prc.queue_set THEN "crashed"
                  ELSE IF queue = <<>> THEN "sleep" ELSE "get"
    /\ UNCHANGED <<patience, retries, source, queue, enqueued, item, rec,
                   transcription, tr, published, tts_queue>>
    /\ UNCHANGED <<segVars, lifeVars>>

\* variant: stop leaves the queue in place, and get_nowait goes on taking from it
PipeGetKept ==
    /\ pipe_pc = "get"
    /\ queue # <<>>
    /\ item' = Head(queue)
    /\ queue' = Tail(queue)
    /\ rec' = RecognizerStart
    /\ pipe_pc' = "recognize"
    /\ UNCHANGED <<patience, retries, source, enqueued, transcription, tr,
                   published, tts_queue>>
    /\ UNCHANGED <<segVars, lifeVars>>

\* audio_data = self.queue.get_nowait(), inside the try
PipeGet ==
    /\ pipe_pc = "get"
    /\ IF prc.queue_set
       THEN /\ item' = Head(queue)
            /\ queue' = Tail(queue)
            /\ rec' = RecognizerStart
            /\ pipe_pc' = "recognize"
       ELSE /\ pipe_pc' = "sleep"
            /\ UNCHANGED <<item, queue, rec>>
    /\ UNCHANGED <<patience, retries, source, enqueued, transcription, tr,
                   published, tts_queue>>
    /\ UNCHANGED <<segVars, lifeVars>>

\* async_run has returned: loop.close(); self.tts_worker.stop()
StopTTSWorker ==
    /\ pipe_pc = "exited"
    /\ ttsw' = [ttsw EXCEPT !.running = FALSE, !.queue_set = FALSE]
    /\ pipe_pc' = "stopping"
    /\ UNCHANGED <<prc, play_queue, plw, plays, speaker_log>>
    /\ UNCHANGED <<patience, retries, source, queue, enqueued, item, rec,
                   transcription, tr, published, tts_queue>>
    /\ UNCHANGED <<segVars, devVars, stopVars>>

\* self.tts_player_worker.stop(); run returns
StopPlayerWorker ==
    /\ pipe_pc = "stopping"
    /\ plw' = [plw EXCEPT !.running = FALSE, !.queue_set = FALSE]
    /\ pipe_pc' = "done"
    /\ UNCHANGED <<prc, play_queue, ttsw, plays, speaker_log>>
    /\ UNCHANGED <<patience, retries, source, queue, enqueued, item, rec,
                   transcription, tr, published, tts_queue>>
    /\ UNCHANGED <<segVars, devVars, stopVars>>

\* TTSWorker.run: while self.running:
TtsWhile ==
    /\ ttsw.pc = "while"
    /\ ttsw' = [ttsw EXCEPT !.pc = IF ttsw.running THEN "empty" ELSE "exited"]
    /\ UNCHANGED <<prc, play_queue, plw, plays, speaker_log>>
    /\ UNCHANGED <<segVars, pipeVars, devVars, stopVars>>

\* if not self.queue.empty(): outside the try
TtsEmpty ==
    /\ ttsw.pc = "empty"
    /\ ttsw' = [ttsw EXCEPT !.pc = IF ~ttsw.queue_set THEN "crashed"
                                   ELSE IF QueueEmpty(tts_queue, ttsw.taken) THEN "sleep"
                                   ELSE "get"]
    /\ UNCHANGED <<prc, play_queue, plw, plays, speaker_log>>
    /\ UNCHANGED <<segVars, pipeVars, devVars, stopVars>>

\* the try block: get_nowait, text_to_speech, put_nowait; an exception is
\* caught and the loop sleeps and continues
TtsGet ==
    /\ ttsw.pc = "get"
    /\ IF ttsw.queue_set
       THEN \E net \in {"ok", "fail"} :
                /\ play_queue' =
                       PutResult(play_queue,
                                 TextToSpeech(GetNowait(tts_queue, ttsw.taken),
                                              ttsw.tts_lang, net))
                /\ ttsw' = [ttsw EXCEPT !.pc = "sleep", !.taken = @ + 1]
       ELSE /\ ttsw' = [ttsw EXCEPT !.pc = "sleep"]
            /\ UNCHANGED play_queue
    /\ UNCHANGED <<prc, plw, plays, speaker_log>>
    /\ UNCHANGED <<segVars, pipeVars, devVars, stopVars>>

\* time.sleep(0.05)
TtsSleep ==
    /\ ttsw.pc = "sleep"
    /\ ttsw' = [ttsw EXCEPT !.pc = "while"]
    /\ UNCHANGED <<prc, play_queue, plw, plays, speaker_log>>
    /\ UNCHANGED <<segVars, pipeVars, devVars, stopVars>>

\* PlayerWorker.run: while self.running:
PlayWhile ==
    /\ plw.pc = "while"
    /\ plw' = [plw EXCEPT !.pc = IF plw.running THEN "empty" ELSE "exited"]
    /\ UNCHANGED <<prc, play_queue, ttsw, plays, speaker_log>>
    /\ UNCHANGED <<segVars, pipeVars, devVars, stopVars>>

\* if not self.queue.empty(): outside the try
PlayEmpty ==
    /\ plw.pc = "empty"
    /\ plw' = [plw EXCEPT !.pc = IF ~plw.queue_set THEN "crashed"
                                 ELSE IF QueueEmpty(play_queue, plw.taken) THEN "sleep"
                                 ELSE "get"]
    /\ UNCHANGED <<prc, play_queue, ttsw, plays, speaker_log>>
    /\ UNCHANGED <<segVars, pipeVars, devVars, stopVars>>

\* the try block up to the call of self.speaker.play: get_nowait,
\* tts_result["audio"] (TypeError on None), the read of self.speaker
PlayGet ==
    /\ plw.pc = "get"
    /\ IF ~plw.queue_set
       THEN /\ plw' = [plw EXCEPT !.pc = "sleep"]
            /\ UNCHANGED plays
       ELSE LET tts_result == GetNowait(play_queue, plw.taken)
            IN  IF tts_result.isNone
                THEN /\ plw' = [plw EXCEPT !.pc = "sleep", !.taken = @ + 1]
                     /\ UNCHANGED plays
                ELSE /\ plw' = [plw EXCEPT !.pc = "playing", !.taken = @ + 1,
                                           !.playing_on = PlayDevice(plw)]
                     /\ plays' = Append(plays, [item |-> tts_result.item,
                                                device |-> PlayDevice(plw),
                                                at |-> Len(speaker_log)])
    /\ UNCHANGED <<prc, play_queue, ttsw, speaker_log>>
    /\ UNCHANGED <<segVars, pipeVars, devVars, stopVars>>

\* self.speaker.play returns or raises
PlayEnd ==
    /\ plw.pc = "playing"
    /\ plw' = [plw EXCEPT !.pc = "sleep"]
    /\ UNCHANGED <<prc, play_queue, ttsw, plays, speaker_log>>
    /\ UNCHANGED <<segVars, pipeVars, devVars, stopVars>>

\* time.sleep(0.05)
PlaySleep ==
    /\ plw.pc = "sleep"
    /\ plw' = [plw EXCEPT !.pc = "while"]
    /\ UNCHANGED <<prc, play_queue, ttsw, plays, speaker_log>>
    /\ UNCHANGED <<segVars, pipeVars, devVars, stopVars>>

\* PlayerWorker.set_speaker, called from the GUI thread
SetSpeaker ==
    /\ Len(speaker_log) < MaxSwitches
    /\ \E d \in Speakers :
           /\ plw' = [plw EXCEPT !.speaker = d]
           /\ speaker_log' = Append(speaker_log, d)
    /\ UNCHANGED <<prc, play_queue, ttsw, plays>>
    /\ UNCHANGED <<segVars, pipeVars, devVars, stopVars>>

-----------------------------------------------------------------------------
(* Part 5: the stream handler (AbstractStreamHandler.run, stop_processing)  *)

\* processor, vad_audio: TRUE while the attribute holds the object, FALSE
\* once it is None; delivered: utterances taken from the generator so far;
\* stream_started: the generator has been entered and has run start_stream
\* (the stream is opened with start=False, and the generator's body up to
\* the loop runs at the first next() of the for statement)
HandlerNew ==
    [pc |-> "new", running |-> TRUE, processor |-> TRUE, vad_audio |-> TRUE,
     initialized |-> FALSE, delivered |-> 0, stream_started |-> FALSE]

\* the threads that call stop_processing: the GUI thread (toggle_translation,
\* closeEvent) and the handler thread (the finally clause of run)
Callers == {"gui", "handler"}

StopIdle == [c \in Callers |-> [pc |-> "idle", steps |-> 0]]

\* no handler is looked at
StopAtRest == hnd = HandlerNew /\ stp = StopIdle

\* chunks of one phrase: voiced for one short window, then unvoiced for one
\* long window
PhraseChunks == NUM_WINDOW_CHUNKS(cfg) + NUM_WINDOW_CHUNKS_END(cfg)

\* the speech the handler of Part 5 captures: one phrase and then silence, or
\* one phrase after the other
SpeechPattern(n) ==
    IF feed.phase = "phrases"
    THEN (n - 1) % PhraseChunks < NUM_WINDOW_CHUNKS(cfg)
    ELSE n <= NUM_WINDOW_CHUNKS(cfg)

\* chunks the device delivers before it blocks
LiveChunks ==
    IF feed.phase = "phrases"
    THEN MaxUtterances * PhraseChunks + MaxSilence
    ELSE PhraseChunks + MaxSilence

\* AbstractStreamHandler.__init__ and start() called by toggle_translation
InitHandler ==
    /\ hnd = [HandlerNew EXCEPT !.pc = "started"]
    /\ stp = StopIdle

\* run: self.initialized = True; self.processor.start(), before the try
HandlerRun ==
    /\ hnd.pc = "started"
    /\ IF hnd.processor
       THEN /\ hnd' = [hnd EXCEPT !.initialized = TRUE, !.pc = "loop"]
            /\ prc' = [prc EXCEPT !.thread = "started"]
       ELSE /\ hnd' = [hnd EXCEPT !.initialized = TRUE, !.pc = "crashed"]
            /\ UNCHANGED prc
    /\ UNCHANGED <<ttsw, play_queue, plw, plays, speaker_log, stp>>
    /\ UNCHANGED <<segVars, pipeVars, devVars>>

\* for sentence in self.frames: the generator runs one iteration of its loop
\* and is suspended at the yield when the iteration ends an utterance
Capture ==
    /\ hnd.pc = "loop"
    /\ Len(stream) < LiveChunks
    /\ ReadChunk(SpeechPattern(Len(stream) + 1))
    /\ hnd' = [hnd EXCEPT !.pc = IF Len(yielded') > Len(yielded) THEN "deliver" ELSE "loop",
                          !.stream_started = TRUE]
    /\ UNCHANGED <<devVars, workVars, stp>>

\* the generator's loop condition sees leave; the generator ends, and so does
\* the for loop
CaptureExit ==
    /\ hnd.pc = "loop"
    /\ GeneratorExit
    /\ hnd' = [hnd EXCEPT !.pc = "finally", !.stream_started = TRUE]
    /\ UNCHANGED <<devVars, workVars, stp>>

\* variant: the processor's queue holds one utterance, and put waits for room
DeliverBounded ==
    /\ hnd.pc = "deliver"
    /\ hnd.processor /\ prc.queue_set => queue = <<>>
    /\ IF hnd.processor /\ prc.queue_set
       THEN /\ enqueued' = enqueued + 1
            /\ queue' = Append(queue, enqueued + 1)
            /\ hnd' = [hnd EXCEPT !.pc = "loop", !.delivered = @ + 1]
       ELSE /\ hnd' = [hnd EXCEPT !.pc = "finally"]
            /\ UNCHANGED <<enqueued, queue>>
    /\ UNCHANGED <<patience, retries, source, pipe_pc, item, rec, transcription,
                   tr, published, tts_queue>>
    /\ UNCHANGED <<segVars, devVars, workVars, stp>>

\* process_wav_data(sentence): self.processor.process(...) puts on
\* self.queue; with either attribute None the AttributeError ends the for
\* loop and the generator is not resumed
Deliver ==
    /\ hnd.pc = "deliver"
    /\ IF hnd.processor /\ prc.queue_set
       THEN /\ enqueued' = enqueued + 1
            /\ queue' = Append(queue, enqueued + 1)
            /\ hnd' = [hnd EXCEPT !.pc = "loop", !.delivered = @ + 1]
       ELSE /\ hnd' = [hnd EXCEPT !.pc = "finally"]
            /\ UNCHANGED <<enqueued, queue>>
    /\ UNCHANGED <<patience, retries, source, pipe_pc, item, rec, transcription,
                   tr, published, tts_queue>>
    /\ UNCHANGED <<segVars, devVars, workVars, stp>>

\* the finally clause has called stop_processing and it has returned
HandlerDone ==
    /\ hnd.pc = "finally"
    /\ stp["handler"].pc = "returned"
    /\ hnd' = [hnd EXCEPT !.pc = "done"]
    /\ UNCHANGED <<segVars, pipeVars, devVars, workVars, stp>>

\* the caller c of stop_processing moves to the next statement
StopTo(c, pc) == [stp EXCEPT ![c] = [pc |-> pc, steps |-> @.steps + 1]]

\* the GUI calls stop_processing on a started handler, once; the handler
\* thread calls it from the finally clause
MayCall(c) == IF c = "gui" THEN hnd.pc # "new" ELSE hnd.pc = "finally"

\* stop_processing: self.running = False
StopRunning(c) ==
    /\ stp[c].pc = "idle"
    /\ MayCall(c)
    /\ hnd' = [hnd EXCEPT !.running = FALSE]
    /\ stp' = StopTo(c, "if_processor")
    /\ UNCHANGED <<segVars, pipeVars, devVars, workVars>>

\* if self.processor:
StopIfProcessor(c) ==
    /\ stp[c].pc = "if_processor"
    /\ stp' = StopTo(c, IF hnd.processor THEN "processor_stop" ELSE "if_vad")
    /\ UNCHANGED <<segVars, pipeVars, devVars, workVars, hnd>>

\* self.processor.stop(): AbstractProcessor.stop sets self.running = False;
\* with self.processor None by now the AttributeError is printed and
\* stop_processing returns
StopProcessorRunning(c) ==
    /\ stp[c].pc = "processor_stop"
    /\ IF hnd.processor
       THEN /\ prc' = [prc EXCEPT !.running = FALSE]
            /\ stp' = StopTo(c, "processor_queue")
       ELSE /\ stp' = StopTo(c, "returned")
            /\ UNCHANGED prc
    /\ UNCHANGED <<ttsw, play_queue, plw, plays, speaker_log, hnd>>
    /\ UNCHANGED <<segVars, pipeVars, devVars>>

\* AbstractProcessor.stop: self.queue = None
StopProcessorQueue(c) ==
    /\ stp[c].pc = "processor_queue"
    /\ prc' = [prc EXCEPT !.queue_set = FALSE]
    /\ stp' = StopTo(c, "processor_none")
    /\ UNCHANGED <<ttsw, play_queue, plw, plays, speaker_log, hnd>>
    /\ UNCHANGED <<segVars, pipeVars, devVars>>

\* self.processor = None
StopProcessorNone(c) ==
    /\ stp[c].pc = "processor_none"
    /\ hnd' = [hnd EXCEPT !.processor = FALSE]
    /\ stp' = StopTo(c, "if_vad")
    /\ UNCHANGED <<segVars, pipeVars, devVars, workVars>>

\* if self.vad_audio:
StopIfVad(c) ==
    /\ stp[c].pc = "if_vad"
    /\ stp' = StopTo(c, IF hnd.vad_audio THEN "vad_close" ELSE "quit")
    /\ UNCHANGED <<segVars, pipeVars, devVars, workVars, hnd>>

\* self.vad_audio.close(): self.leave = True
StopVadClose(c) ==
    /\ stp[c].pc = "vad_close"
    /\ IF hnd.vad_audio
       THEN /\ leave' = TRUE
            /\ stp' = StopTo(c, "vad_none")
       ELSE /\ stp' = StopTo(c, "returned")
            /\ UNCHANGED leave
    /\ UNCHANGED <<cfg, vad_pc, ring_buffer, triggered, voiced_frames,
                   ring_buffer_flags, ring_buffer_index, ring_buffer_flags_end,
                   ring_buffer_index_end, stream, events, flushed, yielded, feed>>
    /\ UNCHANGED <<pipeVars, devVars, workVars, hnd>>

\* self.vad_audio = None
StopVadNone(c) ==
    /\ stp[c].pc = "vad_none"
    /\ hnd' = [hnd EXCEPT !.vad_audio = FALSE]
    /\ stp' = StopTo(c, "quit")
    /\ UNCHANGED <<segVars, pipeVars, devVars, workVars>>

\* variant: stop_processing waits for the processor thread before it returns
StopQuitWaits(c) ==
    /\ stp[c].pc = "quit"
    /\ prc.thread = "running" => pipe_pc \in {"done", "crashed"}
    /\ stp' = StopTo(c, "returned")
    /\ UNCHANGED <<segVars, pipeVars, devVars, workVars, hnd>>

\* self.requestInterruption(); self.quit(); return
StopQuit(c) ==
    /\ stp[c].pc = "quit"
    /\ stp' = StopTo(c, "returned")
    /\ UNCHANGED <<segVars, pipeVars, devVars, workVars, hnd>>

\* one statement of stop_processing executed by caller c
StopStep(c) ==
    \/ StopRunning(c)
    \/ StopIfProcessor(c)
    \/ StopProcessorRunning(c)
    \/ StopProcessorQueue(c)
    \/ StopProcessorNone(c)
    \/ StopIfVad(c)
    \/ StopVadClose(c)
    \/ StopVadNone(c)
    \/ StopQuit(c)

StopProcessing == \E c \in Callers : StopStep(c)

LifeAtRest == DeviceAtRest /\ WorkersAtRest /\ StopAtRest

-----------------------------------------------------------------------------
(* Specifications *)

\* the segmenter fed by the classifier; the pipeline is not started
Init == InitSegmenter /\ PipelineAtRest /\ LifeAtRest

Next == Read \/ Close \/ LoopExit

Spec == Init /\ [][Next]_vars

\* the segmenter in its default configuration fed with sparse speech
InitSparse == SegmenterSparse /\ PipelineAtRest /\ LifeAtRest

SpecSparse == InitSparse /\ [][Next]_vars

\* the pipeline fed with utterances; the segmenter is left as constructed
InitPipeline == SegmenterAtRest /\ InitProcessor /\ LifeAtRest

NextPipeline ==
    \/ Process
    \/ Dequeue
    \/ Recognize
    \/ RecognizeExhausted
    \/ AfterRecognize
    \/ TranslateFirst
    \/ TranslateRetry
    \/ Publish
    \/ Sleep

SpecPipeline == InitPipeline /\ [][NextPipeline]_vars

\* the construction of the speaker handler on every host
InitSpeaker ==
    SegmenterAtRest /\ PipelineAtRest /\ InitDevice /\ WorkersAtRest /\ StopAtRest

NextSpeaker == Select \/ OpenStream \/ ConstructHandler \/ StartHandler \/ Propagate

SpecSpeaker == InitSpeaker /\ [][NextSpeaker]_vars

\* the running microphone processor with its two workers, fed with utterances;
\* the services answer from LiveReplies and LiveScripts
InitFlow ==
    SegmenterAtRest /\ PipelineAtRest /\ DeviceAtRest /\ InitWorkers /\ StopAtRest

NextFlow ==
    \/ Process
    \/ ProcessorRun
    \/ PipeWhile
    \/ PipeEmpty
    \/ PipeGet
    \/ RecognizeLive
    \/ RecognizeExhausted
    \/ AfterRecognize
    \/ TranslateFirstLive
    \/ TranslateRetry
    \/ Publish
    \/ Sleep
    \/ TtsWhile
    \/ TtsEmpty
    \/ TtsGet
    \/ TtsSleep
    \/ PlayWhile
    \/ PlayEmpty
    \/ PlayGet
    \/ PlayEnd
    \/ PlaySleep
    \/ SetSpeaker

SpecFlow == InitFlow /\ [][NextFlow]_vars

\* a started microphone handler with its processor and workers, and
\* stop_processing called by the GUI at any moment
InitStop ==
    /\ cfg \in {DefaultConfig, CoarseConfig}
    /\ InitSegmenter
    /\ PipelineAtRest
    /\ DeviceAtRest
    /\ WorkersAtRest
    /\ InitHandler

NextStop ==
    \/ HandlerRun
    \/ Capture
    \/ CaptureExit
    \/ Deliver
    \/ HandlerDone
    \/ StopProcessing
    \/ ProcessorRun
    \/ PipeWhile
    \/ PipeEmpty
    \/ PipeGet
    \/ RecognizeLive
    \/ RecognizeExhausted
    \/ AfterRecognize
    \/ TranslateFirstLive
    \/ TranslateRetry
    \/ Publish
    \/ Sleep
    \/ StopTTSWorker
    \/ StopPlayerWorker
    \/ TtsWhile
    \/ TtsEmpty
    \/ TtsGet
    \/ TtsSleep
    \/ PlayWhile
    \/ PlayEmpty
    \/ PlayGet
    \/ PlayEnd
    \/ PlaySleep

SpecStop == InitStop /\ [][NextStop]_vars

\* the same handler in the coarse configuration, capturing phrase after phrase
InitHandOver ==
    /\ cfg = CoarseConfig
    /\ leave = FALSE
    /\ vad_pc = "running"
    /\ ring_buffer = <<>>
    /\ triggered = FALSE
    /\ voiced_frames = <<>>
    /\ ring_buffer_flags = ZeroFlags(NUM_WINDOW_CHUNKS(cfg))
    /\ ring_buffer_index = 0
    /\ ring_buffer_flags_end = ZeroFlags(NUM_WINDOW_CHUNKS_END(cfg))
    /\ ring_buffer_index_end = 0
    /\ stream = <<>>
    /\ events = <<>>
    /\ flushed = <<>>
    /\ yielded = <<>>
    /\ feed = PhrasesInit
    /\ PipelineAtRest
    /\ DeviceAtRest
    /\ WorkersAtRest
    /\ InitHandler

\* the handler thread, the GUI and the processor thread; the two workers are
\* started and stopped by the processor and otherwise left alone
NextHandOver ==
    \/ HandlerRun
    \/ Capture
    \/ CaptureExit
    \/ Deliver
    \/ HandlerDone
    \/ StopProcessing
    \/ ProcessorRun
    \/ PipeWhile
    \/ PipeEmpty
    \/ PipeGet
    \/ RecognizeLive
    \/ RecognizeExhausted
    \/ AfterRecognize
    \/ TranslateFirstLive
    \/ TranslateRetry
    \/ Publish
    \/ Sleep
    \/ StopTTSWorker
    \/ StopPlayerWorker

SpecHandOver == InitHandOver /\ [][NextHandOver]_vars

\* the normalizer of a detector of any working rate on a device of any native
\* rate and channel count
InitNormalizer ==
    /\ SegmenterAtRest
    /\ PipelineAtRest
    /\ host = [default |-> Device(1, <<"s">>, TRUE), loopbacks |-> <<>>]
    /\ spk_pc = "new"
    /\ device_info = NoDevice
    /\ opened = {}
    /\ speaker_thread = NoThread
    /\ nrm \in NormalizerInputs
    /\ WorkersAtRest
    /\ StopAtRest

NextNormalizer == StreamRead \/ AnyChunk \/ Normalize

SpecNormalizer == InitNormalizer /\ [][NextNormalizer]_vars

-----------------------------------------------------------------------------
(* Reading the histories *)

Range(a, b) == [i \in 1 .. (b - a + 1) |-> a + i - 1]

Elems(q) == {q[i] : i \in DOMAIN q}

\* voiced verdicts among the last w chunks of s (a slot never written counts
\* as unvoiced)
WindowVoiced(s, w) == Cardinality({k \in DOMAIN s : k > Len(s) - w /\ s[k]})

ShortWindowExceeds(s) ==
    10 * WindowVoiced(s, NUM_WINDOW_CHUNKS(cfg)) > 8 * NUM_WINDOW_CHUNKS(cfg)

LongWindowExceeds(s) ==
    10 * (NUM_WINDOW_CHUNKS_END(cfg) - WindowVoiced(s, NUM_WINDOW_CHUNKS_END(cfg)))
        > 9 * NUM_WINDOW_CHUNKS_END(cfg)

Starts(ev) == Cardinality({i \in DOMAIN ev : ev[i].kind = "start"})

AllUnvoiced(s) == \A i \in DOMAIN s : ~s[i]

\* 10 unvoiced chunks, then 15 voiced chunks, then 60 unvoiced chunks
ScenarioAStream == [i \in 1 .. 85 |-> i \in 11 .. 25]

-----------------------------------------------------------------------------
(* Claims about the segmenter *)

\* C1: an utterance is yielded exactly at a chunk where the long window's
\* unvoiced count exceeds 0.9 of its capacity while a confirmed start is open,
\* a start is confirmed exactly at a chunk where the short window's voiced
\* count exceeds 0.8 of its capacity while no start is open, and nothing is
\* yielded or started otherwise; so each start/end pair yields one utterance.
C1_EmitIffStartThenEnd ==
    [][ LET open == Starts(events) > Len(yielded)
            read == Len(stream') = Len(stream) + 1
        IN  /\ Len(yielded') \in {Len(yielded), Len(yielded) + 1}
            /\ Starts(events') \in {Starts(events), Starts(events) + 1}
            /\ (Len(yielded') = Len(yielded) + 1)
                   <=> (read /\ open /\ LongWindowExceeds(stream'))
            /\ (Starts(events') = Starts(events) + 1)
                   <=> (read /\ ~open /\ ShortWindowExceeds(stream'))
            /\ \A k \in DOMAIN yielded : yielded'[k] = yielded[k]
      ]_vars

C1_Witness == Len(yielded) = 2 /\ Starts(events) = 2

\* C2: Scenario A under the default configuration (windows 13 and 26, padding
\* 50): exactly one utterance, made of the flushed padding buffer (chunks 1 to
\* 21, the trigger being the 11th voiced chunk), the rest of the 15 voiced
\* chunks and the unvoiced chunks up to chunk 49, the first at which 24 of the
\* last 26 verdicts are unvoiced.
C2_ScenarioA ==
    (cfg = DefaultConfig /\ stream = ScenarioAStream) =>
        /\ NUM_WINDOW_CHUNKS(cfg) = 13
        /\ NUM_WINDOW_CHUNKS_END(cfg) = 26
        /\ NUM_PADDING_CHUNKS(cfg) = 50
        /\ Len(yielded) = 1
        /\ events = <<[kind |-> "start", at |-> 21], [kind |-> "end", at |-> 49]>>
        /\ flushed = <<Range(1, 21)>>
        /\ yielded[1] = flushed[1] \o Range(22, 49)
        /\ (11 .. 25) \subseteq Elems(yielded[1])
        /\ ~triggered

C2_Witness == cfg = DefaultConfig /\ stream = ScenarioAStream /\ Len(yielded) = 1

\* C3: while every chunk read so far was unvoiced, the segmenter is Idle, no
\* speech-started event was emitted and no utterance was yielded.
C3_SilenceNeverTriggers ==
    AllUnvoiced(stream) =>
        /\ ~triggered
        /\ events = <<>>
        /\ yielded = <<>>
        /\ voiced_frames = <<>>

C3_Witness == cfg = DefaultConfig /\ Len(stream) = 85 /\ AllUnvoiced(stream)

\* C4: no chunk appears in two consecutively yielded utterances.
C4_NoChunkInTwoUtterances ==
    \A k \in 1 .. (Len(yielded) - 1) :
        Elems(yielded[k]) \cap Elems(yielded[k + 1]) = {}

\* C5: the k-th utterance is the padding buffer as it was at the k-th trigger
\* (ending with the triggering chunk) followed by every chunk read while
\* Recording up to and including the end-confirming chunk, in order, without
\* gap or repetition; its byte length is that number of chunks times the
\* frame size.
C5_UtteranceIsPaddingThenRecording ==
    \A k \in DOMAIN yielded :
        LET u == yielded[k]
            s == events[2 * k - 1]
            e == events[2 * k]
        IN  /\ s.kind = "start" /\ e.kind = "end"
            /\ flushed[k] # <<>>
            /\ flushed[k][Len(flushed[k])] = s.at
            /\ u = flushed[k] \o Range(s.at + 1, e.at)
            /\ \A j \in 1 .. (Len(u) - 1) : u[j + 1] = u[j] + 1
            /\ JoinLen(u, cfg) = Len(u) * FrameBytes(cfg)

C5_Witness ==
    /\ Len(yielded) = 2
    /\ Len(flushed[2]) > 1
    /\ Len(yielded[2]) > Len(flushed[2])


-----------------------------------------------------------------------------
(* Claims about the translator and the recognizer *)

\* the translator has returned for the current utterance
Translated == pipe_pc = "sleep" /\ tr.pc = "returned"

PublishedFor(i) == {published[k].text : k \in {j \in DOMAIN published : published[j].item = i}}

SynthesisFor(i) == {tts_queue[k].text : k \in {j \in DOMAIN tts_queue : tts_queue[j].item = i}}

\* sentinel-terminated twice, then a success
ScenarioBScript == <<Some(Sentinel), Some(Sentinel), Some(Ok)>>

\* always sentinel-terminated
AlwaysFailScript == <<Some(Sentinel)>>

\* C6: Scenario B: with patience 2 and a service answering sentinel, sentinel,
\* success, the translator retries exactly twice (three calls) and the
\* pipeline publishes the successful text.
C6_ScenarioB ==
    (Translated /\ patience = 2 /\ tr.script = ScenarioBScript) =>
        /\ tr.loops = 2
        /\ tr.calls = 3
        /\ PublishedFor(item) = {Ok}

\* C7: Scenario C: with patience 0 and a service that always answers with a
\* sentinel-terminated text, nothing is published and nothing is enqueued for
\* synthesis for that utterance.
C7_ScenarioC ==
    (Translated /\ patience = 0 /\ tr.script = AlwaysFailScript) =>
        /\ PublishedFor(item) = {}
        /\ SynthesisFor(item) = {}

\* C8: for patience p >= 0 the translator makes at most 1 + p calls and runs
\* the retry loop at most p times before it returns; with p = 0 it has
\* returned after exactly one call without entering the loop.
C8_CallsBoundedByPatience ==
    patience >= 0 =>
        /\ tr.calls <= 1 + patience
        /\ tr.loops <= patience
        /\ (patience = 0 /\ tr.pc # "idle") =>
               (tr.pc = "returned" /\ tr.calls = 1 /\ tr.loops = 0)

C8_Witness ==
    /\ Translated
    /\ patience = 0
    /\ tr.script = AlwaysFailScript
    /\ tr.calls = 1

\* C9: with patience -1 and a service that answers every call with a text,
\* the translator returns only with a text that is not sentinel-terminated.
C9_UnboundedRetry ==
    (/\ Translated
     /\ patience = -1
     /\ \A k \in DOMAIN tr.script : Truthy(tr.script[k])) =>
        /\ ~tr.result.isNone
        /\ ~EndsWithNewline(tr.result.text)

\* the recognizer's calls for the current utterance
RecognizerCallsOk ==
    LET n == Len(rec.replies)
    IN  /\ n <= retries
        /\ \A j \in 1 .. (n - 1) : rec.replies[j].kind \in {"error", "empty"}
        /\ (n > 0 /\ rec.replies[n].kind = "transcript") => rec.pc = "returned"
        /\ (rec.pc = "returned" /\ n > 0 /\ rec.replies[n].kind = "error") => n = retries

\* C10 as stated: at most `retries` calls, a transport error is followed by
\* the next attempt, and the first response with a transcript ends the call
\* with that transcript.
C10_ReturnsTranscriptVerbatim ==
    /\ RecognizerCallsOk
    /\ LET n == Len(rec.replies)
       IN  (rec.pc = "returned" /\ n > 0 /\ rec.replies[n].kind = "transcript") =>
               rec.result = Some(rec.replies[n].text)

\* C10 amended: at most `retries` calls, a transport error is followed by the
\* next attempt while the budget lasts, and the first response with a
\* transcript ends the call with that transcript, its first character
\* upper-cased.
C10_ReturnsTranscriptCapitalized ==
    /\ RecognizerCallsOk
    /\ LET n == Len(rec.replies)
       IN  (rec.pc = "returned" /\ n > 0 /\ rec.replies[n].kind = "transcript") =>
               rec.result = Some(Capitalize(rec.replies[n].text))

C10_Witness ==
    /\ retries = 3
    /\ rec.pc = "returned"
    /\ Len(rec.replies) = 3
    /\ rec.replies[1].kind = "error"
    /\ rec.replies[3].kind = "transcript"
    /\ rec.result = Some(<<"A">>)

-----------------------------------------------------------------------------
(* Claims about failures of the recognizer *)

\* every attempt of the current call was made and none brought a transcript
AllAttemptsFailed ==
    /\ rec.pc # "idle"
    /\ Len(rec.replies) = retries
    /\ \A j \in DOMAIN rec.replies : rec.replies[j].kind \in {"error", "empty"}

\* C11: when every one of the `retries` attempts fails (transport error or a
\* response without a transcript) the recognizer returns None, no exception
\* leaves it, and the pipeline finishes the iteration without translating.
C11_AllAttemptsFailReturnsNone ==
    /\ rec.pc \in {"idle", "loop", "returned"}
    /\ AllAttemptsFailed =>
           /\ rec.pc = "loop" => rec.i = retries
           /\ rec.pc = "returned" => rec.result = None
           /\ pipe_pc \in {"recognize", "sleep"}
           /\ pipe_pc = "sleep" =>
                  (transcription = None /\ tr = TrIdle /\ PublishedFor(item) = {})

C11_Witness ==
    /\ retries = 3
    /\ pipe_pc = "sleep"
    /\ AllAttemptsFailed
    /\ rec.replies[1].kind = "error"
    /\ rec.replies[2].kind = "empty"
    /\ rec.replies[3].kind = "error"
    /\ transcription = None

-----------------------------------------------------------------------------
(* Claims about publishing *)

PublishedCount(i) == Cardinality({j \in DOMAIN published : published[j].item = i})

SynthesisCount(i) == Cardinality({j \in DOMAIN tts_queue : tts_queue[j].item = i})

\* C18: when the translation of an utterance is non-blank the pipeline
\* publishes exactly one text event for it; the microphone pipeline also puts
\* that same text, once, on the synthesis queue; the speaker pipeline never
\* puts anything on a synthesis queue.
C18_PublishOnceAndEnqueueOnMicrophone ==
    /\ \A i \in 1 .. enqueued : PublishedCount(i) <= 1 /\ SynthesisCount(i) <= 1
    /\ (Translated /\ NonBlank(tr.result)) =>
           /\ PublishedCount(item) = 1
           /\ PublishedFor(item) = {tr.result.text}
           /\ source = "microphone" =>
                  (SynthesisCount(item) = 1 /\ SynthesisFor(item) = {tr.result.text})
    /\ source = "speaker" => tts_queue = <<>>

C18_Witness ==
    /\ Translated
    /\ NonBlank(tr.result)
    /\ source = "microphone"
    /\ item = 2
    /\ Len(published) = 2
    /\ tts_queue = published

-----------------------------------------------------------------------------
(* Claims about the speaker handler's device *)

\* the default output device is not a loopback device and no enumerated
\* loopback device's name contains its name
NoLoopbackMatches ==
    /\ ~host.default.isLoopbackDevice
    /\ \A j \in DOMAIN host.loopbacks : ~Contains(host.default.name, host.loopbacks[j])

\* C12: Scenario D: when the default output device is not a loopback device
\* and no enumerated loopback device's name contains its name, the selection
\* raises during the construction of the source, no device is substituted or
\* opened, the speaker handler is never constructed and its initialized flag
\* never becomes true.
C12_ScenarioD ==
    NoLoopbackMatches =>
        /\ spk_pc \in {"new", "raised", "failed"}
        /\ device_info = NoDevice
        /\ opened = {}
        /\ ~speaker_thread.constructed
        /\ ~speaker_thread.initialized

C12_Witness ==
    /\ NoLoopbackMatches
    /\ Len(host.loopbacks) = 2
    /\ spk_pc = "failed"
    /\ opened = {}

-----------------------------------------------------------------------------
(* Claims about the microphone processor's queues and workers *)

\* the utterances of s appear in the order of their arrival, none twice
InArrivalOrder(s) ==
    /\ \A k \in DOMAIN s : s[k].item \in 1 .. enqueued
    /\ \A j, k \in DOMAIN s : j < k => s[j].item < s[k].item

\* C17: per source the utterances are surfaced in arrival order: the published
\* text events, the items put on the synthesis queue and the played audio are
\* each an order-preserving subsequence of the utterances handed to the
\* pipeline.
C17_ArrivalOrder ==
    /\ InArrivalOrder(published)
    /\ InArrivalOrder(tts_queue)
    /\ InArrivalOrder(play_queue)
    /\ InArrivalOrder(plays)

C17_Witness ==
    /\ Len(published) = 2
    /\ Len(plays) = 2
    /\ plays[1].item = 1
    /\ plays[2].item = 2

\* C19: when text_to_speech returns None for a text, nothing is put on the
\* play queue for that text.
C19_AbsentResultIsDropped ==
    \A k \in DOMAIN play_queue : ~play_queue[k].isNone

\* the device set_speaker had installed after n calls
DeviceAfter(n) == IF n = 0 THEN DefaultSpeaker ELSE speaker_log[n]

\* C20: each playback uses one device, the one current when it began: a
\* playback in flight keeps its device when set_speaker is called, and a
\* playback that begins after a set_speaker call uses the device of that call.
C20_PlaybackUsesCurrentDevice ==
    /\ \A k \in DOMAIN plays : plays[k].device = DeviceAfter(plays[k].at)
    /\ plw.pc = "playing" => plw.playing_on = plays[Len(plays)].device

C20_Witness ==
    /\ plw.pc = "playing"
    /\ Len(plays) = 1
    /\ plays[1].at = 0
    /\ speaker_log = <<"usb">>
    /\ plw.speaker = "usb"
    /\ plw.playing_on = DefaultSpeaker

-----------------------------------------------------------------------------
(* Claims about stopping a started microphone handler *)

StopCalled(c) == stp[c].pc # "idle"

StopReturned(c) == stp[c].pc = "returned"

\* C13: Scenario E: once stop_processing has been called on a started handler
\* the capture loop exits and the device stream is stopped, closed and
\* released; so a handler whose run method has reached its end has released
\* the device.
C13_StoppedHandlerHasReleasedDevice ==
    (StopCalled("gui") /\ hnd.pc = "done") => vad_pc = "closed"

\* C14: after stop_processing the pipeline loop and both worker loops get
\* their running flag cleared and terminate; so once the processor thread
\* has ended, no worker is left with its running flag set.
C14_WorkersStoppedWhenProcessorEnds ==
    (StopCalled("gui") /\ pipe_pc \in {"done", "crashed"}) =>
        (~ttsw.running /\ ~plw.running)

\* statements of stop_processing on its longest path
StopStatements == 9

\* C15: stop_processing completes in a bounded number of its own steps and
\* waits for nothing: whatever the other threads are doing, its next
\* statement can be executed, and it has returned after at most nine
\* statements.
C15_StopNeverWaits ==
    \A c \in Callers :
        /\ stp[c].steps <= StopStatements
        /\ (StopCalled(c) /\ ~StopReturned(c)) => ENABLED StopStep(c)
        /\ stp[c].steps = StopStatements => StopReturned(c)

\* stop_processing has returned to the GUI while a recognition call is in
\* flight and every loop is still inside an iteration
C15_Witness ==
    /\ StopReturned("gui")
    /\ stp["gui"].steps = StopStatements
    /\ pipe_pc = "recognize"
    /\ rec.pc = "loop"
    /\ ttsw.pc \notin {"new", "exited", "crashed"}
    /\ plw.pc \notin {"new", "exited", "crashed"}

\* C16: no exception leaves the pipeline loop or a worker loop: a failure
\* inside an iteration, also one caused by stop() clearing the queue
\* reference, is caught.
C16_NoLoopIsLeftByAnException ==
    /\ pipe_pc # "crashed"
    /\ ttsw.pc # "crashed"
    /\ plw.pc # "crashed"

-----------------------------------------------------------------------------
(* Claims about the segmenter's buffers, windows and events *)

\* C24: a captured chunk is held in at most one of the utterance accumulator
\* and the padding buffer.
C24_ChunkInOneBuffer ==
    Elems(voiced_frames) \cap Elems(ring_buffer) = {}

\* the chunk just read found the segmenter Idle / Recording
ChunkReadWhileIdle == stream' # stream /\ ~triggered

ChunkReadWhileRecording == stream' # stream /\ triggered

\* C25 as stated: per chunk the verdict is written to exactly one window:
\* while Idle the long window is left unchanged, while Recording the short
\* window is left unchanged.
C25_OneWindowPerChunk ==
    [][/\ ChunkReadWhileIdle =>
              UNCHANGED <<ring_buffer_flags_end, ring_buffer_index_end>>
       /\ ChunkReadWhileRecording =>
              UNCHANGED <<ring_buffer_flags, ring_buffer_index>>]_vars

\* the window of n slots holds the verdicts of the last n chunks, the chunk k
\* in slot (k - 1) % n, and zero in a slot never written
HoldsLastVerdicts(flags, index, n) ==
    /\ index = Len(stream) % n
    /\ \A k \in DOMAIN stream :
           k > Len(stream) - n => flags[(k - 1) % n] = Flag(stream[k])
    /\ \A slot \in Len(stream) .. (n - 1) : flags[slot] = 0

\* C25 amended: per chunk the verdict is written to both windows, each time
\* over the window's oldest slot, whether the segmenter is Idle or Recording.
C25_BothWindowsPerChunk ==
    /\ HoldsLastVerdicts(ring_buffer_flags, ring_buffer_index, NUM_WINDOW_CHUNKS(cfg))
    /\ HoldsLastVerdicts(ring_buffer_flags_end, ring_buffer_index_end,
                         NUM_WINDOW_CHUNKS_END(cfg))

\* while Recording an unvoiced verdict has overwritten a voiced one in the
\* short window, and the long window holds the voiced verdicts read while Idle
C25_Witness ==
    /\ triggered
    /\ Len(stream) > events[Len(events)].at
    /\ ~stream[Len(stream)]
    /\ Sum(ring_buffer_flags) < NUM_WINDOW_CHUNKS(cfg)
    /\ Sum(ring_buffer_flags_end) > 0
    /\ cfg = DefaultConfig

\* C29: speech-started and speech-ended events alternate, beginning with
\* speech-started; started minus ended is 1 exactly while Recording and 0
\* while Idle; every yielded utterance comes with exactly one speech-ended
\* event, announced at the chunk that ends it.
C29_EventsAlternate ==
    /\ \A k \in DOMAIN events :
           events[k].kind = IF k % 2 = 1 THEN "start" ELSE "end"
    /\ \A k \in 1 .. (Len(events) - 1) : events[k].at < events[k + 1].at
    /\ triggered <=> Len(events) % 2 = 1
    /\ Len(events) = 2 * Len(yielded) + (IF triggered THEN 1 ELSE 0)
    /\ \A u \in DOMAIN yielded : yielded[u][Len(yielded[u])] = events[2 * u].at

C29_Witness ==
    /\ Len(events) = 4
    /\ Len(yielded) = 2
    /\ ~triggered

\* chunks from the trigger of the u-th utterance to the chunk that ends it
Distance(u) == events[2 * u].at - events[2 * u - 1].at

\* C30: with the default windows (13 and 26 slots) the end of an utterance is
\* confirmed no earlier than 22 chunks after the chunk that confirmed its
\* start, whatever the verdicts; every yielded utterance has at least 23
\* chunks.
C30_EarliestEnd ==
    cfg = DefaultConfig =>
        /\ NUM_WINDOW_CHUNKS(cfg) = 13
        /\ NUM_WINDOW_CHUNKS_END(cfg) = 26
        /\ \A u \in DOMAIN yielded : Distance(u) >= 22 /\ Len(yielded[u]) >= 23

\* the bound is met: ten voiced chunks, two unvoiced, one voiced (trigger at
\* chunk 13), then silence; the end is confirmed at chunk 35
C30_Witness ==
    /\ cfg = DefaultConfig
    /\ Len(yielded) = 1
    /\ events[1].at = 13
    /\ Distance(1) = 22
    /\ ~stream[11]
    /\ ~stream[12]


(* Claims about the pipeline's handling of one utterance *)

\* an absent result, or a text that strips to nothing
Blank(o) == o.isNone \/ Strip(o.text) = <<>>

\* the recognizer has returned a blank result and the pipeline moves on
DropStep ==
    /\ pipe_pc = "recognize"
    /\ rec.pc = "returned"
    /\ Blank(rec.result)
    /\ pipe_pc' # pipe_pc

\* the utterance in hand was dropped: the iteration ends without a translation
Dropped == pipe_pc = "sleep" /\ Blank(transcription)

ItemsOf(log) == {log[k].item : k \in DOMAIN log}

\* C26: when recognition returns None or a blank transcription, the translator
\* is not entered, nothing is published and nothing is enqueued for synthesis
\* for that utterance; the loop then sleeps, polls again and takes the next
\* queued utterance, and the dropped one never comes back: utterances leave
\* the queue once each in arrival order, and every published or enqueued text
\* belongs to an utterance whose transcription was not blank.
C26_BlankIsDropped ==
    /\ [][DropStep =>
             /\ pipe_pc' = "sleep"
             /\ tr' = TrIdle
             /\ UNCHANGED <<published, tts_queue, queue>>]_vars
    /\ [](Dropped =>
             /\ tr = TrIdle
             /\ item \notin ItemsOf(published) \cup ItemsOf(tts_queue)
             /\ \A k \in DOMAIN queue : queue[k] > item)
    /\ [][Dropped /\ pipe_pc' # pipe_pc =>
             /\ pipe_pc' = "poll"
             /\ UNCHANGED <<published, tts_queue, queue>>]_vars
    /\ [][pipe_pc = "poll" /\ pipe_pc' # pipe_pc =>
             /\ queue # <<>>
             /\ item' = Head(queue)
             /\ queue' = Tail(queue)
             /\ pipe_pc' = "recognize"]_vars
    /\ [](\A k \in DOMAIN queue : queue[k] = enqueued - Len(queue) + k)
    /\ [](pipe_pc # "poll" => item = enqueued - Len(queue))
    /\ [][published' # published \/ tts_queue' # tts_queue =>
             /\ ~Blank(transcription)
             /\ ItemsOf(published') \cup ItemsOf(tts_queue') =
                    ItemsOf(published) \cup ItemsOf(tts_queue) \cup {item}]_vars

\* the first utterance was dropped for a blank transcription while the second waits
C26_Witness ==
    /\ Dropped
    /\ ~transcription.isNone
    /\ item = 1
    /\ queue = <<2>>
    /\ published = <<>>


(* Claims about the hand-over from the capture loop to the pipeline *)

\* C27: while the handler is running (stop_processing has not been entered),
\* handing an utterance over never blocks and never fails: whatever the queue
\* holds and wherever the pipeline is, the put is enabled and takes its
\* successful branch; and the capture loop can read the next chunk whenever
\* the device has one, whatever the pipeline is doing.
C27_HandOverNeverBlocks ==
    hnd.running =>
        /\ hnd.pc = "deliver" => hnd.processor /\ prc.queue_set /\ ENABLED Deliver
        /\ hnd.pc = "loop" /\ Len(stream) < LiveChunks => ENABLED Capture

\* the second utterance was handed over while the pipeline was still inside
\* the recognition of the first
C27_Witness ==
    /\ hnd.running
    /\ hnd.delivered = 2
    /\ hnd.pc = "loop"
    /\ Len(stream) < LiveChunks
    /\ pipe_pc = "recognize"
    /\ item = 1
    /\ queue = <<2>>


(* Claims about the handler's initialized flag *)

\* C21: the initialized flag is true only after the capture stream has been
\* started: in every state where initialized holds, start_stream has run.
C21_InitializedAfterStreamStart == hnd.initialized => hnd.stream_started


(* Claims about the frame normalizer *)

\* frames of the chunk in hand
FramesIn == Len(nrm.chunk) \div nrm.input_channels

\* C22: for every channel count and native rate the function returns a mono
\* chunk at the working rate: its sample count is that of the chunk's frames
\* scaled by working rate / native rate (fraction dropped), and when the
\* rates are equal it is the channel-averaged data, for a device of more than
\* one channel too.
C22_ReturnsMonoAtWorkingRate ==
    nrm.pc = "normalized" =>
        /\ Len(nrm.out) * nrm.input_rate <= FramesIn * nrm.rate
        /\ FramesIn * nrm.rate < (Len(nrm.out) + 1) * nrm.input_rate
        /\ nrm.input_rate = nrm.rate =>
               nrm.out = IF nrm.input_channels > 1
                         THEN ChannelMean(nrm.chunk, nrm.input_channels)
                         ELSE nrm.chunk

\* round(num / den) for num >= 0, den > 0: to the nearest integer, a half to
\* the even one
Round(num, den) ==
    LET q == num \div den
        r == num % den
    IN  IF 2 * r < den THEN q
        ELSE IF 2 * r > den THEN q + 1
        ELSE IF q % 2 = 0 THEN q ELSE q + 1

Abs(a) == IF a >= 0 THEN a ELSE 0 - a

\* C23: when the native rate differs from the working rate, a mono input of
\* L samples at rate Rin comes out with round(L * Rout / Rin) samples, within
\* one sample.
C23_ResampledLengthWithinOneOfRound ==
    (nrm.pc = "normalized" /\ nrm.input_channels = 1 /\ nrm.input_rate # nrm.rate) =>
        Abs(Len(nrm.out) - Round(Len(nrm.chunk) * nrm.rate, nrm.input_rate)) <= 1

\* a resampled mono chunk whose sample count is one less than the rounded one
C23_Witness ==
    /\ nrm.pc = "normalized"
    /\ nrm.input_channels = 1
    /\ nrm.input_rate # nrm.rate
    /\ nrm.out # <<>>
    /\ Len(nrm.out) + 1 = Round(Len(nrm.chunk) * nrm.rate, nrm.input_rate)

\* C28: every frame read from the device covers the configured chunk
\* duration at the device's native rate, and the normalized chunk handed to
\* the classifier holds exactly CHUNK_SIZE samples.
C28_ReadCoversChunkDuration ==
    nrm.read =>
        /\ FramesIn = (nrm.input_rate * cfg.chunk_duration_ms) \div 1000
        /\ nrm.pc = "normalized" => Len(nrm.out) = ChunkSizeAt(nrm.rate, cfg)


(* Claims about closing the segmenter *)

\* C31: when close() is called while the segmenter is Recording, the
\* utterance in hand is never yielded and no speech-ended event is announced
\* for it: from the moment leave is set with an utterance open, the events
\* and the yielded utterances stay as they are, and the generator ends with
\* the last start event unmatched and its chunk in no yielded utterance.
C31_CloseWhileRecordingDropsUtterance ==
    /\ [][leave /\ triggered =>
             UNCHANGED <<events, yielded, voiced_frames, triggered>>]_vars
    /\ [](vad_pc = "closed" /\ triggered =>
             /\ voiced_frames # <<>>
             /\ Len(events) = 2 * Len(yielded) + 1
             /\ events[Len(events)].kind = "start"
             /\ \A u \in DOMAIN yielded : \A j \in DOMAIN yielded[u] :
                    yielded[u][j] < events[Len(events)].at)

\* the generator has ended after an earlier utterance was yielded, with chunks
\* recorded after the second start
C31_Witness ==
    /\ vad_pc = "closed"
    /\ triggered
    /\ Len(yielded) = 1
    /\ Len(stream) > events[Len(events)].at


(* Claims about stopping the pipeline *)

\* AbstractProcessor.stop has cleared running and the queue attribute; what
\* is left of it touches nothing of the loop
PipelineStopped == ~prc.queue_set

\* an utterance has been taken from the queue and its iteration is not over
InFlight == pipe_pc \in {"recognize", "translate"}

\* C32: after stop() on a pipeline, at most one further text event is
\* published, for the utterance that was in flight when stop ran, and the
\* utterances still waiting are never recognized, translated or published:
\* once stopped, nothing is taken from the queue; with no utterance in flight
\* nothing is published and none comes in flight; with one in flight the
\* only text event is the one of that utterance, and it ends the flight.
C32_AtMostOneEventAfterStop ==
    /\ [][PipelineStopped => queue' = queue]_vars
    /\ [][PipelineStopped /\ ~InFlight => ~InFlight' /\ published' = published]_vars
    /\ [][PipelineStopped /\ InFlight =>
             /\ item' \in {item, 0}
             /\ published' # published =>
                    /\ Len(published') = Len(published) + 1
                    /\ published'[Len(published')].item = item
                    /\ ~InFlight']_vars
    /\ [](PipelineStopped =>
             \A k \in DOMAIN queue :
                 /\ queue[k] # item
                 /\ queue[k] \notin ItemsOf(published) \cup ItemsOf(tts_queue))

\* stop has run while the first utterance is in flight, its translation is
\* about to be published, and the second utterance is waiting in the queue
C32_Witness ==
    /\ PipelineStopped
    /\ pipe_pc = "translate"
    /\ tr.pc = "returned"
    /\ NonBlank(tr.result)
    /\ item = 1
    /\ queue = <<2>>

=============================================================================
